---- MODULE Spec2Model ----
(***************************************************************************)
(* Model of the Tauri command read_openclaw_token of                       *)
(* tools/scene-builder/src-tauri/src/lib.rs: resolve the home directory,   *)
(* read <home>/.openclaw/openclaw.json, parse it as JSON and return the    *)
(* string found at /gateway/auth/token, or an error message.               *)
(*                                                                         *)
(* Text is a sequence of one-character strings.  A JSON value is a record  *)
(* [t, s, kids]: t is the type, s the characters of a string or of a       *)
(* number's lexeme, kids the elements of an array or the members of an     *)
(* object, each a record [k, v] (k is <<>> for an array element).          *)
(***************************************************************************)
EXTENDS Integers, Sequences, FiniteSets, TLC

----------------------------------------------------------------------------
(* JSON values: serde_json::Value *)

JNull == [t |-> "null", s |-> <<>>, kids |-> <<>>]
JTrue == [t |-> "true", s |-> <<>>, kids |-> <<>>]
JFalse == [t |-> "false", s |-> <<>>, kids |-> <<>>]
JNum(lexeme) == [t |-> "num", s |-> lexeme, kids |-> <<>>]
JStr(chars) == [t |-> "str", s |-> chars, kids |-> <<>>]
JArr(members) == [t |-> "arr", s |-> <<>>, kids |-> members]
JObj(members) == [t |-> "obj", s |-> <<>>, kids |-> members]

Member(key, value) == [k |-> key, v |-> value]
Elem(value) == [k |-> <<>>, v |-> value]

(* Map::insert: a later member with the same key replaces the earlier one. *)
MapInsert(members, key, value) ==
  IF \E i \in 1..Len(members) : members[i].k = key
  THEN [i \in 1..Len(members) |->
          IF members[i].k = key THEN Member(key, value) ELSE members[i]]
  ELSE Append(members, Member(key, value))

(* Map::get *)
MapGet(members, key) ==
  IF \E i \in 1..Len(members) : members[i].k = key
  THEN [some |-> TRUE,
        v |-> members[CHOOSE i \in 1..Len(members) : members[i].k = key].v]
  ELSE [some |-> FALSE, v |-> JNull]

----------------------------------------------------------------------------
(* serde_json::from_str, on documents with numbers without exponent,       *)
(* strings without \u escapes, and nesting below the recursion limit       *)

Digits == {"0", "1", "2", "3", "4", "5", "6", "7", "8", "9"}
IsWs(ch) == ch \in {" ", "\n", "\t", "\r"}

Parsed(value, next) == [err |-> "", val |-> value, pos |-> next]
Fail(cause, at) == [err |-> cause, val |-> JNull, pos |-> at]

RECURSIVE SkipWs(_, _)
SkipWs(txt, i) ==
  IF i <= Len(txt) /\ IsWs(txt[i]) THEN SkipWs(txt, i + 1) ELSE i

RECURSIVE ParseIdent(_, _, _, _, _)
ParseIdent(txt, i, rest, n, value) ==
  IF n > Len(rest) THEN Parsed(value, i)
  ELSE IF i > Len(txt) THEN Fail("EOF while parsing a value", i)
  ELSE IF txt[i] /= rest[n] THEN Fail("expected ident", i)
  ELSE ParseIdent(txt, i + 1, rest, n + 1, value)

RECURSIVE SkipDigits(_, _)
SkipDigits(txt, i) ==
  IF i <= Len(txt) /\ txt[i] \in Digits THEN SkipDigits(txt, i + 1) ELSE i

(* i is the first character of the number ("-" or a digit) *)
ParseNumber(txt, i) ==
  LET d == IF txt[i] = "-" THEN i + 1 ELSE i IN
  IF d > Len(txt) THEN Fail("EOF while parsing a value", d)
  ELSE IF txt[d] \notin Digits THEN Fail("invalid number", d)
  ELSE LET e == IF txt[d] = "0" THEN d + 1 ELSE SkipDigits(txt, d) IN
       IF txt[d] = "0" /\ e <= Len(txt) /\ txt[e] \in Digits
       THEN Fail("invalid number", e)
       ELSE IF e <= Len(txt) /\ txt[e] = "."
       THEN IF e + 1 > Len(txt) THEN Fail("EOF while parsing a value", e + 1)
            ELSE IF txt[e + 1] \notin Digits THEN Fail("invalid number", e + 1)
            ELSE LET f == SkipDigits(txt, e + 1) IN
                 Parsed(JNum(SubSeq(txt, i, f - 1)), f)
       ELSE Parsed(JNum(SubSeq(txt, i, e - 1)), e)

Unescape(ch) ==
  CASE ch = "\"" -> <<"\"">>
    [] ch = "\\" -> <<"\\">>
    [] ch = "/" -> <<"/">>
    [] ch = "n" -> <<"\n">>
    [] ch = "t" -> <<"\t">>
    [] ch = "r" -> <<"\r">>
    [] OTHER -> <<>>

(* i is the character after the opening quote; acc the decoded characters *)
RECURSIVE ParseStr(_, _, _)
ParseStr(txt, i, acc) ==
  IF i > Len(txt) THEN Fail("EOF while parsing a string", i)
  ELSE IF txt[i] = "\"" THEN Parsed(JStr(acc), i + 1)
  ELSE IF txt[i] = "\\"
  THEN IF i + 1 > Len(txt) THEN Fail("EOF while parsing a string", i + 1)
       ELSE IF Unescape(txt[i + 1]) = <<>> THEN Fail("invalid escape", i + 1)
       ELSE ParseStr(txt, i + 2, acc \o Unescape(txt[i + 1]))
  ELSE IF txt[i] \in {"\n", "\t", "\r"}
  THEN Fail("control character while parsing a string", i)
  ELSE ParseStr(txt, i + 1, Append(acc, txt[i]))

RECURSIVE ParseValue(_, _)
RECURSIVE ParseSeq(_, _, _)
RECURSIVE ParseMap(_, _, _)

(* i is the first character of an element; acc the elements parsed so far *)
ParseSeq(txt, i, acc) ==
  LET r == ParseValue(txt, i) IN
  IF r.err /= "" THEN r
  ELSE LET j == SkipWs(txt, r.pos)
           got == Append(acc, Elem(r.val)) IN
       IF j > Len(txt) THEN Fail("EOF while parsing a list", j)
       ELSE IF txt[j] = "]" THEN Parsed(JArr(got), j + 1)
       ELSE IF txt[j] /= "," THEN Fail("expected comma or ]", j)
       ELSE LET n == SkipWs(txt, j + 1) IN
            IF n <= Len(txt) /\ txt[n] = "]" THEN Fail("trailing comma", n)
            ELSE ParseSeq(txt, n, got)

(* i is where a key is expected; acc the members parsed so far *)
ParseMap(txt, i, acc) ==
  IF i > Len(txt) THEN Fail("EOF while parsing an object", i)
  ELSE IF txt[i] /= "\"" THEN Fail("key must be a string", i)
  ELSE LET key == ParseStr(txt, i + 1, <<>>) IN
  IF key.err /= "" THEN key
  ELSE LET c == SkipWs(txt, key.pos) IN
  IF c > Len(txt) THEN Fail("EOF while parsing an object", c)
  ELSE IF txt[c] /= ":" THEN Fail("expected colon", c)
  ELSE LET r == ParseValue(txt, c + 1) IN
  IF r.err /= "" THEN r
  ELSE LET j == SkipWs(txt, r.pos)
           got == MapInsert(acc, key.val.s, r.val) IN
       IF j > Len(txt) THEN Fail("EOF while parsing an object", j)
       ELSE IF txt[j] = "}" THEN Parsed(JObj(got), j + 1)
       ELSE IF txt[j] /= "," THEN Fail("expected comma or }", j)
       ELSE LET n == SkipWs(txt, j + 1) IN
            IF n <= Len(txt) /\ txt[n] = "}" THEN Fail("trailing comma", n)
            ELSE ParseMap(txt, n, got)

ParseValue(txt, i0) ==
  LET i == SkipWs(txt, i0) IN
  IF i > Len(txt) THEN Fail("EOF while parsing a value", i)
  ELSE LET ch == txt[i] IN
       CASE ch = "n" -> ParseIdent(txt, i + 1, <<"u", "l", "l">>, 1, JNull)
         [] ch = "t" -> ParseIdent(txt, i + 1, <<"r", "u", "e">>, 1, JTrue)
         [] ch = "f" -> ParseIdent(txt, i + 1, <<"a", "l", "s", "e">>, 1, JFalse)
         [] ch = "-" \/ ch \in Digits -> ParseNumber(txt, i)
         [] ch = "\"" -> ParseStr(txt, i + 1, <<>>)
         [] ch = "[" ->
              LET j == SkipWs(txt, i + 1) IN
              IF j > Len(txt) THEN Fail("EOF while parsing a list", j)
              ELSE IF txt[j] = "]" THEN Parsed(JArr(<<>>), j + 1)
              ELSE ParseSeq(txt, j, <<>>)
         [] ch = "{" ->
              LET j == SkipWs(txt, i + 1) IN
              IF j > Len(txt) THEN Fail("EOF while parsing an object", j)
              ELSE IF txt[j] = "}" THEN Parsed(JObj(<<>>), j + 1)
              ELSE ParseMap(txt, j, <<>>)
         [] OTHER -> Fail("expected value", i)

(* from_str without the check that nothing follows the value *)
from_str_prefix(txt) == ParseValue(txt, 1)

(* Deserializer::end: only whitespace may follow the value *)
from_str(txt) ==
  LET r == ParseValue(txt, 1) IN
  IF r.err /= "" THEN r
  ELSE IF SkipWs(txt, r.pos) <= Len(txt)
  THEN Fail("trailing characters", SkipWs(txt, r.pos))
  ELSE r

----------------------------------------------------------------------------
(* Value::pointer and Value::as_str *)

Some(value) == [some |-> TRUE, v |-> value]
None == [some |-> FALSE, v |-> JNull]

DigitValue(ch) ==
  CASE ch = "0" -> 0 [] ch = "1" -> 1 [] ch = "2" -> 2 [] ch = "3" -> 3
    [] ch = "4" -> 4 [] ch = "5" -> 5 [] ch = "6" -> 6 [] ch = "7" -> 7
    [] ch = "8" -> 8 [] OTHER -> 9

RECURSIVE ToNumber(_, _)
ToNumber(tok, n) ==
  IF n = 0 THEN 0 ELSE 10 * ToNumber(tok, n - 1) + DigitValue(tok[n])

(* parse_index: the zero-based index a reference token names, or -1 *)
parse_index(tok) ==
  IF tok = <<>> \/ (\E i \in 1..Len(tok) : tok[i] \notin Digits)
     \/ (tok[1] = "0" /\ Len(tok) /= 1)
  THEN -1
  ELSE ToNumber(tok, Len(tok))

(* a pointer step that looks a key up inside the first element of an array *)
PointerStepIntoArrays(target, tok) ==
  CASE target.t = "obj" -> MapGet(target.kids, tok)
    [] target.t = "arr" /\ target.kids /= <<>> /\ target.kids[1].v.t = "obj" ->
         MapGet(target.kids[1].v.kids, tok)
    [] OTHER -> None

(* one step of the fold: the child of target the reference token names *)
PointerStep(target, tok) ==
  CASE target.t = "obj" -> MapGet(target.kids, tok)
    [] target.t = "arr" ->
         IF parse_index(tok) >= 0 /\ parse_index(tok) < Len(target.kids)
         THEN Some(target.kids[parse_index(tok) + 1].v)
         ELSE None
    [] OTHER -> None

RECURSIVE pointer(_, _)
pointer(value, toks) ==
  IF toks = <<>> THEN Some(value)
  ELSE LET child == PointerStep(value, Head(toks)) IN
       IF child.some THEN pointer(child.v, Tail(toks)) ELSE None

(* as_str that also answers for a number, with its digits *)
as_str_or_number(opt) ==
  IF opt.some /\ opt.v.t \in {"str", "num"}
  THEN [some |-> TRUE, s |-> opt.v.s]
  ELSE [some |-> FALSE, s |-> <<>>]

(* Option<&Value> -> Option<&str> *)
as_str(opt) ==
  IF opt.some /\ opt.v.t = "str"
  THEN [some |-> TRUE, s |-> opt.v.s]
  ELSE [some |-> FALSE, s |-> <<>>]

gateway == <<"g", "a", "t", "e", "w", "a", "y">>
auth == <<"a", "u", "t", "h">>
token == <<"t", "o", "k", "e", "n">>

(* "/gateway/auth/token", split at "/" *)
TokenPointer == <<gateway, auth, token>>

----------------------------------------------------------------------------
(* Paths and the filesystem.  A path is its sequence of components. *)

join(path, component) == Append(path, component)

(* the path with the .openclaw directory left out *)
ConfigPathFlat(dir) == join(dir, "openclaw.json")

ConfigPath(dir) == join(join(dir, ".openclaw"), "openclaw.json")

File(txt) == [kind |-> "file", text |-> txt]
Missing == [kind |-> "missing", text |-> <<>>]
Denied == [kind |-> "denied", text |-> <<>>]
Directory == [kind |-> "dir", text |-> <<>>]
NotUtf8 == [kind |-> "notutf8", text |-> <<>>]

StateOf(files, path) ==
  IF path \in DOMAIN files THEN files[path] ELSE Missing

(* std::fs::read_to_string: the text, or the io::Error *)
read_to_string(files, path) ==
  LET f == StateOf(files, path) IN
  CASE f.kind = "file" -> [err |-> "", text |-> f.text]
    [] f.kind = "missing" ->
         [err |-> "No such file or directory (os error 2)", text |-> <<>>]
    [] f.kind = "denied" ->
         [err |-> "Permission denied (os error 13)", text |-> <<>>]
    [] f.kind = "dir" ->
         [err |-> "Is a directory (os error 21)", text |-> <<>>]
    [] OTHER ->
         [err |-> "stream did not contain valid UTF-8", text |-> <<>>]

----------------------------------------------------------------------------
(* Result<String, String>.  An error is its message: the fixed text, and   *)
(* the path and the cause formatted into it.                               *)

Ok(s) == [ok |-> TRUE, val |-> s, msg |-> "", path |-> <<>>, cause |-> ""]
Err(text, p, e) ==
  [ok |-> FALSE, val |-> <<>>, msg |-> text, path |-> p, cause |-> e]

ErrHome == Err("cannot resolve home directory", <<>>, "")
ErrRead(p, e) == Err("cannot read {}: {}", p, e)
ErrParse(e) == Err("invalid JSON: {}", <<>>, e)
ErrField == Err("gateway.auth.token not found in openclaw.json", <<>>, "")

NoResult == Err("", <<>>, "")

----------------------------------------------------------------------------
(* The files the command is run against.  Documents are built as values    *)
(* and written out as text, compact or with whitespace, so that what a     *)
(* document holds at gateway.auth.token is known from its construction.    *)

EscapeChar(ch) ==
  CASE ch = "\"" -> <<"\\", "\"">>
    [] ch = "\\" -> <<"\\", "\\">>
    [] ch = "\n" -> <<"\\", "n">>
    [] OTHER -> <<ch>>

RECURSIVE EscapeAll(_)
EscapeAll(chars) ==
  IF chars = <<>> THEN <<>>
  ELSE EscapeChar(Head(chars)) \o EscapeAll(Tail(chars))

Quote(chars) == <<"\"">> \o EscapeAll(chars) \o <<"\"">>

RECURSIVE Ser(_, _)
RECURSIVE SerKids(_, _, _, _)
Ser(v, sp) ==
  CASE v.t = "null" -> <<"n", "u", "l", "l">>
    [] v.t = "true" -> <<"t", "r", "u", "e">>
    [] v.t = "false" -> <<"f", "a", "l", "s", "e">>
    [] v.t = "num" -> v.s
    [] v.t = "str" -> Quote(v.s)
    [] v.t = "arr" -> <<"[">> \o sp \o SerKids(v.kids, 1, sp, FALSE) \o sp \o <<"]">>
    [] OTHER -> <<"{">> \o sp \o SerKids(v.kids, 1, sp, TRUE) \o sp \o <<"}">>

SerKids(kids, i, sp, keyed) ==
  IF i > Len(kids) THEN <<>>
  ELSE (IF i > 1 THEN <<",">> \o sp ELSE <<>>)
       \o (IF keyed THEN Quote(kids[i].k) \o sp \o <<":">> \o sp ELSE <<>>)
       \o Ser(kids[i].v, sp)
       \o SerKids(kids, i + 1, sp, keyed)

Compact(v) == Ser(v, <<>>)
Pretty(v) == <<" ">> \o Ser(v, <<"\n", " ">>) \o <<"\n">>

abc123 == <<"a", "b", "c", "1", "2", "3">>
decoy == <<"d", "e", "c", "o", "y">>
mode == <<"m", "o", "d", "e">>
port == <<"p", "o", "r", "t">>
version == <<"v", "e", "r", "s", "i", "o", "n">>

(* the strings a document holds at gateway.auth.token: plain, empty,       *)
(* with surrounding whitespace, with a quote and a backslash to escape     *)
TokenStrings ==
  {abc123, <<>>, <<" ", "a", " ">>, <<"a", "\"", "b", "\\">>, <<"x", "\n">>}

(* values that are not strings *)
NonStrings ==
  {JNull, JTrue, JFalse, JNum(<<"4", "2">>), JNum(<<"-", "1", ".", "5">>),
   JArr(<<>>), JArr(<<Elem(JStr(abc123))>>),
   JObj(<<>>), JObj(<<Member(token, JStr(abc123))>>)}

(* values that are not objects *)
NonObjects ==
  {JNull, JFalse, JNum(<<"0">>), JStr(abc123), JStr(token), JArr(<<>>),
   JArr(<<Elem(JObj(<<Member(gateway,
             JObj(<<Member(auth, JObj(<<Member(token, JStr(abc123))>>))>>))>>))>>)}

(* documents that hold v at gateway.auth.token, other fields around it *)
Holding(v) ==
  LET a == JObj(<<Member(token, v)>>)
      g == JObj(<<Member(auth, a)>>)
      extra == Member(mode, JStr(token))
      top == Member(token, JStr(decoy))
  IN {JObj(<<Member(gateway, g)>>),
      JObj(<<Member(gateway, JObj(<<Member(auth, JObj(<<Member(token, v), extra>>))>>))>>),
      JObj(<<Member(gateway, JObj(<<Member(auth, JObj(<<extra, Member(token, v)>>))>>))>>),
      JObj(<<Member(gateway, JObj(<<Member(port, JNum(<<"1", "8">>)), Member(auth, a)>>))>>),
      JObj(<<Member(version, JNum(<<"1">>)), top, Member(gateway, g),
             Member(auth, JObj(<<Member(token, JStr(decoy))>>))>>)}

Texts(values) == {Compact(v) : v \in values} \cup {Pretty(v) : v \in values}

(* a string at the path *)
TokenDocsOf(s) == Texts(Holding(JStr(s)))
TokenDocs == UNION {TokenDocsOf(s) : s \in TokenStrings}

(* a value at the path that is not a string *)
NonStringDocs == UNION {Texts(Holding(v)) : v \in NonStrings}

(* no value at the path: a key missing at some level, or spelled otherwise *)
AbsentDocs ==
  Texts({JObj(<<>>),
         JObj(<<Member(gateway, JObj(<<>>))>>),
         JObj(<<Member(gateway, JObj(<<Member(auth, JObj(<<>>))>>))>>),
         JObj(<<Member(gateway, JObj(<<Member(auth,
            JObj(<<Member(<<"T", "o", "k", "e", "n">>, JStr(abc123))>>))>>))>>),
         JObj(<<Member(gateway, JObj(<<Member(auth,
            JObj(<<Member(<<"t", "o", "k", "e", "n", " ">>, JStr(abc123))>>))>>))>>),
         JObj(<<Member(auth, JObj(<<Member(token, JStr(abc123))>>))>>),
         JObj(<<Member(gateway, JObj(<<Member(token, JStr(abc123))>>))>>),
         JObj(<<Member(token, JStr(abc123))>>),
         JObj(<<Member(<<"g", "a", "t", "e", "w", "a", "y", ".", "a", "u", "t", "h", ".", "t", "o", "k", "e", "n">>, JStr(abc123))>>),
         JObj(<<Member(<<"/", "g", "a", "t", "e", "w", "a", "y", "/", "a", "u", "t", "h", "/", "t", "o", "k", "e", "n">>, JStr(abc123))>>)})

(* the root, gateway or gateway.auth is not an object *)
NonObjectDocs ==
  Texts(NonObjects
        \cup {JObj(<<Member(gateway, v)>>) : v \in NonObjects}
        \cup {JObj(<<Member(gateway, JObj(<<Member(auth, v)>>))>>) : v \in NonObjects})

Canonical == Compact(JObj(<<Member(gateway,
               JObj(<<Member(auth, JObj(<<Member(token, JStr(abc123))>>))>>))>>))

(* text that is not JSON: every proper prefix of the canonical document,   *)
(* and the usual slips                                                     *)
MalformedDocs ==
  {SubSeq(Canonical, 1, n) : n \in 0..(Len(Canonical) - 1)}
  \cup {Canonical \o tail : tail \in {<<"x">>, <<"}">>, <<",">>, Canonical}}
  \cup {<<"{", "n", "o", "t", " ", "j", "s", "o", "n">>,
        <<" ">>,
        <<"\n">>,
        <<"{", "'", "g", "a", "t", "e", "w", "a", "y", "'", ":", "1", "}">>,
        <<"{", "g", "a", "t", "e", "w", "a", "y", ":", "1", "}">>,
        <<"{", "\"", "g", "a", "t", "e", "w", "a", "y", "\"", " ", "1", "}">>,
        <<"{", "\"", "g", "a", "t", "e", "w", "a", "y", "\"", ":", "{", "\"", "a", "u", "t", "h", "\"", ":", "{", "\"", "t", "o", "k", "e", "n", "\"", ":", "\"", "a", "b", "c", "1", "2", "3", "\"", ",", "}", "}", "}">>,
        <<"{", "\"", "g", "a", "t", "e", "w", "a", "y", "\"", ":", "{", "\"", "a", "u", "t", "h", "\"", ":", "{", "\"", "t", "o", "k", "e", "n", "\"", ":", "a", "b", "c", "1", "2", "3", "}", "}", "}">>,
        <<"{", "\"", "g", "a", "t", "e", "w", "a", "y", "\"", ":", "{", "\"", "a", "u", "t", "h", "\"", ":", "{", "\"", "t", "o", "k", "e", "n", "\"", ":", "\"", "a", "b", "c", "1", "2", "3", "\"", "}", "}">>,
        <<"[", "1", " ", "2", "]">>,
        <<"[", "1", ",", "]">>,
        <<"[", ",", "1", "]">>,
        <<"n", "u", "l">>,
        <<"t", "r", "u">>,
        <<"T", "r", "u", "e">>,
        <<"u", "n", "d", "e", "f", "i", "n", "e", "d">>,
        <<"0", "1">>,
        <<"-">>,
        <<"1", ".">>,
        <<"+", "1">>,
        <<"\"", "a", "\\", "q", "b", "\"">>,
        <<"\"", "a", "\n", "b", "\"">>,
        <<"{", "\"", "t", "o", "k", "e", "n", "\"", ":", "\"", "\\">>,
        <<"{", "\"", "a", "\"", ":", "1", ",", "}">>,
        <<"{", "\"", "a", "\"", ":", "1", " ", "\"", "b", "\"", ":", "2", "}">>,
        <<"{", "1", ":", "2", "}">>}

----------------------------------------------------------------------------
(* The command as a state machine: the environment it reads, and one call  *)
(* in flight per caller, a step per fallible operation of its body.        *)

NCallers == 2

Callers == 1..NCallers

HomeU == <<"home", "u">>
HomeRoot == <<"root">>
Homes == {HomeU, HomeRoot}

NoHome == [some |-> FALSE, dir |-> <<>>]
HomeAt(dir) == [some |-> TRUE, dir |-> dir]

(* where the configuration of the user whose home is dir lies on disk *)
ConfigOf(dir) == dir \o <<".openclaw", "openclaw.json">>

DecoyDoc == Compact(JObj(<<Member(gateway,
              JObj(<<Member(auth, JObj(<<Member(token, JStr(decoy))>>))>>))>>))

(* what the configuration file may be *)
FileStates ==
  {Missing, Denied, Directory, NotUtf8}
  \cup {File(d) : d \in TokenDocs \cup NonStringDocs \cup AbsentDocs
                        \cup NonObjectDocs \cup MalformedDocs}

(* the files around it: the other user's configuration, and the paths a   *)
(* wrong join would build                                                  *)
Surroundings ==
  [p \in {ConfigOf(h) : h \in Homes} \cup {Append(h, "openclaw.json") : h \in Homes}
         \cup {<<".openclaw", "openclaw.json">>}
     |-> File(DecoyDoc)]

(* the files the concurrent runs start from: one of each outcome *)
FewFileStates ==
  {Missing, Denied, File(Canonical), File(Pretty(JObj(<<>>))),
   File(Compact(JObj(<<Member(gateway, JObj(<<Member(auth,
      JObj(<<Member(token, JNum(<<"4", "2">>))>>))>>))>>))),
   File(<<"{", "n", "o", "t", " ", "j", "s", "o", "n">>)}

(* from_str, worked out once for each text a file may hold *)
KnownTexts == {f.text : f \in FileStates} \cup {DecoyDoc}
Parses == [txt \in KnownTexts |-> from_str(txt)]
Parse(txt) == IF txt \in KnownTexts THEN Parses[txt] ELSE from_str(txt)

VARIABLES
  home_dir,   \* what dirs::home_dir() answers: [some, dir]
  fs,         \* the filesystem: path -> file state
  pc,         \* per caller: the operation the call is at
  home,       \* per caller: local home
  path,       \* per caller: local path
  raw,        \* per caller: local raw
  json,       \* per caller: local json
  result,     \* per caller: the Result returned
  trace,      \* per caller: the operations the call has attempted, in order
  reads,      \* per caller: the paths the call has asked the filesystem for
  first       \* per caller: the result of its first call, once returned

env == <<home_dir, fs>>
locals == <<home, path, raw, json>>
vars == <<home_dir, fs, pc, home, path, raw, json, result, trace, reads, first>>

(* any file, at the configuration path of either user; the home directory *)
(* is that user's, or cannot be resolved                                   *)
Init ==
  /\ \E owner \in Homes, f \in FileStates :
       /\ home_dir \in {NoHome, HomeAt(owner)}
       /\ fs = [p \in DOMAIN Surroundings |->
                  IF p = ConfigOf(owner) THEN f ELSE Surroundings[p]]
  /\ pc = [c \in Callers |-> "idle"]
  /\ home = [c \in Callers |-> <<>>]
  /\ path = [c \in Callers |-> <<>>]
  /\ raw = [c \in Callers |-> <<>>]
  /\ json = [c \in Callers |-> JNull]
  /\ result = [c \in Callers |-> NoResult]
  /\ trace = [c \in Callers |-> <<>>]
  /\ reads = [c \in Callers |-> <<>>]
  /\ first = [c \in Callers |-> [set |-> FALSE, result |-> NoResult]]

(* the call returns r: `?` on an Err, or the final expression *)
Finish(c, r) ==
  /\ pc' = [pc EXCEPT ![c] = "done"]
  /\ result' = [result EXCEPT ![c] = r]

Attempt(c, op) == trace' = [trace EXCEPT ![c] = Append(@, op)]

(* the host invokes the command *)
Invoke(c) ==
  /\ pc[c] = "idle"
  /\ pc' = [pc EXCEPT ![c] = "home_dir"]
  /\ UNCHANGED <<env, locals, result, trace, reads, first>>

(* home_dir().unwrap_or_default(): the path relative to the working directory *)
ResolveHomeOrDefault(c) ==
  /\ pc[c] = "home_dir"
  /\ Attempt(c, "home_dir")
  /\ home' = [home EXCEPT ![c] = home_dir.dir]
  /\ path' = [path EXCEPT ![c] = ConfigPath(home_dir.dir)]
  /\ pc' = [pc EXCEPT ![c] = "read_to_string"]
  /\ UNCHANGED <<env, raw, json, result, reads, first>>

(* let home = dirs::home_dir().ok_or(..)?; let path = home.join(..).join(..); *)
ResolveHome(c) ==
  /\ pc[c] = "home_dir"
  /\ Attempt(c, "home_dir")
  /\ IF home_dir.some
     THEN /\ home' = [home EXCEPT ![c] = home_dir.dir]
          /\ path' = [path EXCEPT ![c] = ConfigPath(home_dir.dir)]
          /\ pc' = [pc EXCEPT ![c] = "read_to_string"]
          /\ UNCHANGED result
     ELSE /\ Finish(c, ErrHome)
          /\ UNCHANGED <<home, path>>
  /\ UNCHANGED <<env, raw, json, reads, first>>

(* a read that removes the file once it has its text *)
ReadFileConsuming(c) ==
  /\ pc[c] = "read_to_string"
  /\ Attempt(c, "read_to_string")
  /\ reads' = [reads EXCEPT ![c] = Append(@, path[c])]
  /\ LET r == read_to_string(fs, path[c]) IN
     IF r.err = ""
     THEN /\ raw' = [raw EXCEPT ![c] = r.text]
          /\ pc' = [pc EXCEPT ![c] = "from_str"]
          /\ fs' = [fs EXCEPT ![path[c]] = Missing]
          /\ UNCHANGED result
     ELSE /\ Finish(c, ErrRead(path[c], r.err))
          /\ UNCHANGED <<raw, fs>>
  /\ UNCHANGED <<home_dir, home, path, json, first>>

(* a read that opens the file with create(true): a missing file appears, empty *)
ReadFileCreating(c) ==
  /\ pc[c] = "read_to_string"
  /\ Attempt(c, "read_to_string")
  /\ reads' = [reads EXCEPT ![c] = Append(@, path[c])]
  /\ fs' = IF StateOf(fs, path[c]) = Missing /\ path[c] \in DOMAIN fs
           THEN [fs EXCEPT ![path[c]] = File(<<>>)]
           ELSE fs
  /\ LET r == read_to_string(fs', path[c]) IN
     IF r.err = ""
     THEN /\ raw' = [raw EXCEPT ![c] = r.text]
          /\ pc' = [pc EXCEPT ![c] = "from_str"]
          /\ UNCHANGED result
     ELSE /\ Finish(c, ErrRead(path[c], r.err))
          /\ UNCHANGED raw
  /\ UNCHANGED <<home_dir, home, path, json, first>>

(* let raw = std::fs::read_to_string(&path).map_err(..)?; *)
ReadFile(c) ==
  /\ pc[c] = "read_to_string"
  /\ Attempt(c, "read_to_string")
  /\ reads' = [reads EXCEPT ![c] = Append(@, path[c])]
  /\ LET r == read_to_string(fs, path[c]) IN
     IF r.err = ""
     THEN /\ raw' = [raw EXCEPT ![c] = r.text]
          /\ pc' = [pc EXCEPT ![c] = "from_str"]
          /\ UNCHANGED result
     ELSE /\ Finish(c, ErrRead(path[c], r.err))
          /\ UNCHANGED raw
  /\ UNCHANGED <<env, home, path, json, first>>

(* a parse of one buffer shared by all calls: the first caller's raw *)
ParseJsonShared(c) ==
  /\ pc[c] = "from_str"
  /\ Attempt(c, "from_str")
  /\ LET r == Parse(raw[1]) IN
     IF r.err = ""
     THEN /\ json' = [json EXCEPT ![c] = r.val]
          /\ pc' = [pc EXCEPT ![c] = "pointer"]
          /\ UNCHANGED result
     ELSE /\ Finish(c, ErrParse(r.err))
          /\ UNCHANGED json
  /\ UNCHANGED <<env, home, path, raw, reads, first>>

(* from_str(&raw).unwrap_or_default(): a parse failure goes on with null *)
ParseJsonOrNull(c) ==
  /\ pc[c] = "from_str"
  /\ Attempt(c, "from_str")
  /\ json' = [json EXCEPT ![c] = Parse(raw[c]).val]
  /\ pc' = [pc EXCEPT ![c] = "pointer"]
  /\ UNCHANGED <<env, home, path, raw, result, reads, first>>

(* let json: Value = serde_json::from_str(&raw).map_err(..)?; *)
ParseJson(c) ==
  /\ pc[c] = "from_str"
  /\ Attempt(c, "from_str")
  /\ LET r == Parse(raw[c]) IN
     IF r.err = ""
     THEN /\ json' = [json EXCEPT ![c] = r.val]
          /\ pc' = [pc EXCEPT ![c] = "pointer"]
          /\ UNCHANGED result
     ELSE /\ Finish(c, ErrParse(r.err))
          /\ UNCHANGED json
  /\ UNCHANGED <<env, home, path, raw, reads, first>>

RECURSIVE TrimStart(_)
TrimStart(chars) ==
  IF chars /= <<>> /\ IsWs(Head(chars)) THEN TrimStart(Tail(chars)) ELSE chars

RECURSIVE TrimEnd(_)
TrimEnd(chars) ==
  IF chars /= <<>> /\ IsWs(chars[Len(chars)])
  THEN TrimEnd(SubSeq(chars, 1, Len(chars) - 1))
  ELSE chars

(* a lookup that trims the token: .map(|s| s.trim().to_string()) *)
LookupTokenTrimmed(c) ==
  /\ pc[c] = "pointer"
  /\ Attempt(c, "pointer")
  /\ LET s == as_str(pointer(json[c], TokenPointer)) IN
     Finish(c, IF s.some THEN Ok(TrimEnd(TrimStart(s.s))) ELSE ErrField)
  /\ UNCHANGED <<env, locals, reads, first>>

(* json.pointer(..).and_then(|v| v.as_str()).map(String::from).ok_or_else(..) *)
LookupToken(c) ==
  /\ pc[c] = "pointer"
  /\ Attempt(c, "pointer")
  /\ LET s == as_str(pointer(json[c], TokenPointer)) IN
     Finish(c, IF s.some THEN Ok(s.s) ELSE ErrField)
  /\ UNCHANGED <<env, locals, reads, first>>

(* the host takes the result; the call's locals are dropped *)
Return(c) ==
  /\ pc[c] = "done"
  /\ first' = [first EXCEPT ![c] =
                 IF @.set THEN @ ELSE [set |-> TRUE, result |-> result[c]]]
  /\ pc' = [pc EXCEPT ![c] = "idle"]
  /\ home' = [home EXCEPT ![c] = <<>>]
  /\ path' = [path EXCEPT ![c] = <<>>]
  /\ raw' = [raw EXCEPT ![c] = <<>>]
  /\ json' = [json EXCEPT ![c] = JNull]
  /\ result' = [result EXCEPT ![c] = NoResult]
  /\ trace' = [trace EXCEPT ![c] = <<>>]
  /\ reads' = [reads EXCEPT ![c] = <<>>]
  /\ UNCHANGED env

Step(c) ==
  \/ Invoke(c)
  \/ ResolveHome(c)
  \/ ReadFile(c)
  \/ ParseJson(c)
  \/ LookupToken(c)
  \/ Return(c)

(* one caller, calling again and again, against every file *)
Next == Step(1)

Spec == Init /\ [][Next]_vars

(* every caller, their steps interleaved, against a few files *)
InitConc ==
  /\ Init
  /\ \A h \in Homes : fs[ConfigOf(h)] \in FewFileStates \cup {File(DecoyDoc)}

NextConc == \E c \in Callers : Step(c)

SpecConc == InitConc /\ [][NextConc]_vars

(* the whole body run in one piece, as a function of the environment *)
read_openclaw_token(h, files) ==
  IF ~h.some THEN ErrHome
  ELSE LET p == ConfigPath(h.dir)
           r == read_to_string(files, p) IN
       IF r.err /= "" THEN ErrRead(p, r.err)
       ELSE LET j == Parse(r.text) IN
            IF j.err /= "" THEN ErrParse(j.err)
            ELSE LET s == as_str(pointer(j.val, TokenPointer)) IN
                 IF s.some THEN Ok(s.s) ELSE ErrField

----------------------------------------------------------------------------
(* Properties.  They speak of the environment by how it was set up, not by *)
(* what the command computes from it.                                      *)

Done(c) == pc[c] = "done"

(* the file at <home>/.openclaw/openclaw.json, the home directory resolved *)
TheFile == StateOf(fs, ConfigOf(home_dir.dir))
Readable == home_dir.some /\ TheFile.kind = "file"

SpacedToken == <<" ", "a", " ">>
NotJson == <<"{", "n", "o", "t", " ", "j", "s", "o", "n">>
NumberAtToken ==
  Compact(JObj(<<Member(gateway, JObj(<<Member(auth,
     JObj(<<Member(token, JNum(<<"4", "2">>))>>))>>))>>))
ArrayAtGateway ==
  Compact(JObj(<<Member(gateway, JArr(<<Elem(JObj(<<Member(gateway,
     JObj(<<Member(auth, JObj(<<Member(token, JStr(abc123))>>))>>))>>))>>))>>))

(* C1: when the home directory resolves and the file there is a document   *)
(* holding the string s at gateway.auth.token, whatever else it holds and  *)
(* however it is spaced, a finished call has returned Ok(s), s unchanged   *)
(* (empty, or with its surrounding whitespace).                            *)
ReturnsTokenVerbatim ==
  \A c \in Callers : \A s \in TokenStrings :
    (Done(c) /\ Readable /\ TheFile.text \in TokenDocsOf(s)) => result[c] = Ok(s)

ReturnsTokenVerbatimWitness ==
  \E c \in Callers :
    /\ Done(c) /\ Readable
    /\ TheFile.text \in TokenDocsOf(SpacedToken)
    /\ result[c].ok /\ result[c].val = SpacedToken

(* C2: when the home directory resolves and the file there is missing,     *)
(* denied, a directory or not UTF-8, a finished call has returned the      *)
(* "cannot read" error with the path <home>/.openclaw/openclaw.json and    *)
(* the io error in it, and no token.                                       *)
ReadFailureNamesPath ==
  \A c \in Callers :
    (Done(c) /\ home_dir.some /\ TheFile.kind /= "file") =>
      /\ ~result[c].ok
      /\ result[c].val = <<>>
      /\ result[c].msg = "cannot read {}: {}"
      /\ result[c].path = home_dir.dir \o <<".openclaw", "openclaw.json">>
      /\ result[c].cause /= ""
      /\ result[c].cause = read_to_string(fs, ConfigOf(home_dir.dir)).err

ReadFailureNamesPathWitness ==
  \E c \in Callers :
    /\ Done(c) /\ home_dir = HomeAt(HomeU) /\ TheFile = Denied
    /\ result[c].path = <<"home", "u", ".openclaw", "openclaw.json">>
    /\ result[c].cause = "Permission denied (os error 13)"

(* C3: when the file is read and its text is not JSON, a finished call has *)
(* returned the "invalid JSON" error with the parser's cause in it: no     *)
(* token, and not the "not found" error.                                   *)
MalformedIsParseError ==
  \A c \in Callers :
    (Done(c) /\ Readable /\ TheFile.text \in MalformedDocs) =>
      /\ ~result[c].ok
      /\ result[c].msg = "invalid JSON: {}"
      /\ result[c].cause /= ""
      /\ result[c] /= ErrField

MalformedIsParseErrorWitness ==
  \E c \in Callers :
    /\ Done(c) /\ Readable /\ TheFile.text = NotJson
    /\ result[c].msg = "invalid JSON: {}"
    /\ result[c].cause = "key must be a string"

(* C4: when the file is a JSON document, a finished call has returned the  *)
(* "not found" error exactly when the document holds no string at          *)
(* gateway.auth.token: nothing there, or a value that is not a string,     *)
(* which is never returned as a token.                                     *)
NotFoundIffNoString ==
  \A c \in Callers :
    (Done(c) /\ Readable
       /\ TheFile.text \in TokenDocs \cup NonStringDocs \cup AbsentDocs \cup NonObjectDocs) =>
      /\ (result[c] = ErrField) <=> (TheFile.text \notin TokenDocs)
      /\ (TheFile.text \in NonStringDocs) => ~result[c].ok

NotFoundIffNoStringWitness ==
  \E c \in Callers :
    Done(c) /\ Readable /\ TheFile.text = NumberAtToken /\ result[c] = ErrField

(* C5: when the home directory cannot be resolved, a call builds no path   *)
(* and asks the filesystem for nothing, and returns the "cannot resolve    *)
(* home directory" error from its first step.                              *)
UnresolvedHomeReadsNothing ==
  \A c \in Callers :
    (~home_dir.some /\ pc[c] /= "idle") =>
      /\ pc[c] \in {"home_dir", "done"}
      /\ path[c] = <<>>
      /\ reads[c] = <<>>
      /\ Done(c) => result[c] = ErrHome

UnresolvedHomeReadsNothingWitness ==
  \E c \in Callers :
    Done(c) /\ ~home_dir.some /\ result[c] = ErrHome /\ trace[c] = <<"home_dir">>

(* C6: every later call of a caller returns what its first call returned.  *)
Idempotent ==
  \A c \in Callers : (Done(c) /\ first[c].set) => result[c] = first[c].result

IdempotentWitness ==
  \E c \in Callers :
    Done(c) /\ first[c].set /\ result[c].ok /\ result[c].val = abc123

(* C7: no step of any call changes the filesystem or the home directory.   *)
PureRead == [][fs' = fs /\ home_dir' = home_dir]_vars

PureReadWitness ==
  \E c \in Callers :
    /\ Done(c) /\ home_dir.some /\ TheFile = Missing
    /\ reads[c] = <<ConfigOf(home_dir.dir)>>
    /\ ~result[c].ok

(* C8: with the calls of several callers interleaved in every way, a       *)
(* finished call has returned what the body run in one piece returns for   *)
(* the environment, and every call that has begun ends, whatever the       *)
(* other callers are doing: none waits for another.                        *)
Body(c) == ResolveHome(c) \/ ReadFile(c) \/ ParseJson(c) \/ LookupToken(c)

FairConc == SpecConc /\ \A c \in Callers : WF_vars(Body(c))

ReturnsAsAlone ==
  \A c \in Callers : Done(c) => result[c] = read_openclaw_token(home_dir, fs)

ConcurrentCallsIndependent ==
  /\ []ReturnsAsAlone
  /\ \A c \in Callers : (pc[c] = "home_dir") ~> Done(c)

ConcurrentCallsIndependentWitness ==
  \E c, d \in Callers :
    /\ c /= d
    /\ Done(c) /\ result[c] = Ok(abc123)
    /\ pc[d] = "from_str"

(* C9: a call attempts home_dir, read_to_string, from_str, pointer in that *)
(* order, each at most once; it ends at the first of them that fails, with *)
(* that step's error, and with a token only when all four succeeded; and   *)
(* every call that has begun ends.                                         *)
Order == <<"home_dir", "read_to_string", "from_str", "pointer">>

FirstFailure ==
  IF ~home_dir.some THEN 1
  ELSE IF TheFile.kind /= "file" THEN 2
  ELSE IF TheFile.text \in MalformedDocs THEN 3
  ELSE IF TheFile.text \in TokenDocs THEN 5
  ELSE 4

Outcomes ==
  <<"cannot resolve home directory", "cannot read {}: {}", "invalid JSON: {}",
    "gateway.auth.token not found in openclaw.json", "">>

StepsInOrder ==
  \A c \in Callers :
    /\ Len(trace[c]) <= 4
    /\ trace[c] = SubSeq(Order, 1, Len(trace[c]))
    /\ Done(c) =>
         /\ trace[c] = SubSeq(Order, 1, IF FirstFailure = 5 THEN 4 ELSE FirstFailure)
         /\ result[c].msg = Outcomes[FirstFailure]
         /\ result[c].ok <=> (FirstFailure = 5)

FairSpec ==
  /\ Spec
  /\ WF_vars(ResolveHome(1))
  /\ WF_vars(ReadFile(1))
  /\ WF_vars(ParseJson(1))
  /\ WF_vars(LookupToken(1))

OneOutcomePerCall == []StepsInOrder /\ ((pc[1] = "home_dir") ~> Done(1))

OneOutcomePerCallWitness ==
  \E c \in Callers :
    /\ Done(c) /\ Readable /\ TheFile.text \in MalformedDocs
    /\ trace[c] = <<"home_dir", "read_to_string", "from_str">>
    /\ result[c].msg = "invalid JSON: {}"

====
